---- MODULE Spec2Model ----
(***************************************************************************)
(* A model of main.py of obsidian-yaml-editor: the run driver (main), the  *)
(* file selector (list_note_files), the file processor (process_file) and  *)
(* the pure text functions it is built from.                               *)
(*                                                                         *)
(* Text.  A str (and a file's bytes) is a sequence of segments             *)
(* [s |-> line, t |-> terminator]: the characters of a line followed by    *)
(* the line terminator that ends it.  t is "\n" or "\r\n"; the last        *)
(* segment alone may have t = "" (the text does not end with a             *)
(* terminator), and then its s is not empty.  Two texts are the same       *)
(* string iff they are the same sequence.  A line is one of the strings    *)
(* of LineSet; what str.strip and PyYAML do with each is spelled out       *)
(* below.                                                                  *)
(*                                                                         *)
(* File names are sequences of name atoms (substrings): Kniga stands for   *)
(* the Cyrillic literal prefix of FILE_NAME_PATTERN.                       *)
(***************************************************************************)
EXTENDS Integers, Sequences, FiniteSets, TLC

\* ------------------------------------------------------------------ bounds

\* The longest file, in lines, of the single-file specification.
MaxLines == 4
\* The most directory entries of the directory specification.
MaxEntries == 2
\* The number of times the program is run in a row.
MaxRuns == 2

\* ------------------------------------------------------------------- lines

DELIM == "---"
\* A delimiter line with trailing whitespace: strip() makes it "---".
DelimPadded == "--- "
Blank == ""
\* A block mapping entry in the form safe_dump writes it.
MapK == "k: 1"
\* The same entry as YAML accepts it but safe_dump never writes it.
MapKWide == "k:   1"
MapJ == "j: 2"
\* A block sequence entry.
ListItem == "- 1"
\* A plain scalar; outside the block, a line of the note's body.
Plain == "x"
\* What safe_dump writes for the empty mapping.
EmptyFlow == "{}"

LineSet == {DELIM, DelimPadded, Blank, MapK, MapKWide, MapJ, ListItem, Plain}

LF == "\n"
CRLF == "\r\n"
NoEol == ""

\* None, for an index.
None == -1

\* str.strip() of one line.
Strip(line) == IF line = DelimPadded THEN DELIM ELSE line

\* str.splitlines(): the lines without their terminators; a text that ends
\* with a terminator has no empty last line.
splitlines(text) == [i \in 1..Len(text) |-> text[i].s]

\* "\n".join(lines): a terminator between two lines and none after the last,
\* so an empty last line leaves the text ending with the "\n" before it.
JoinLF(lines) ==
    IF lines = <<>> THEN <<>>
    ELSE LET n == Len(lines)
             body == [i \in 1..(n - 1) |-> [s |-> lines[i], t |-> LF]]
         IN  IF lines[n] = "" THEN body
             ELSE Append(body, [s |-> lines[n], t |-> NoEol])

\* What text mode with newline=None does to a file's bytes on reading:
\* every "\r\n" becomes "\n".
UniversalNewlines(bytes) ==
    [i \in 1..Len(bytes) |->
        [s |-> bytes[i].s, t |-> IF bytes[i].t = CRLF THEN LF ELSE bytes[i].t]]

\* -------------------------------------------------------------------- YAML

MapLines == {MapK, MapKWide, MapJ}
KeyOf(line) == IF line = MapJ THEN "j" ELSE "k"
ValueOf(line) == IF line = MapJ THEN 2 ELSE 1

\* The entry line safe_dump writes for one key and value.
DumpEntry(pair) == IF pair.key = "j" THEN MapJ ELSE MapK

\* dict[key] = value for each entry in turn: a key seen again keeps its
\* place and takes the later value.
RECURSIVE ConstructMapping(_, _)
ConstructMapping(entries, acc) ==
    IF entries = <<>> THEN acc
    ELSE LET e == [key |-> KeyOf(Head(entries)), value |-> ValueOf(Head(entries))]
             at == {i \in 1..Len(acc) : acc[i].key = e.key}
         IN  ConstructMapping(
                 Tail(entries),
                 IF at = {} THEN Append(acc, e)
                 ELSE [i \in 1..Len(acc) |-> IF i \in at THEN e ELSE acc[i]])

\* The lines PyYAML's scanner gives tokens for: blank lines carry none.
NonBlank(lines) == SelectSeq(lines, LAMBDA l : Strip(l) # "")

\* yaml.safe_load of the lines joined by "\n".  A record: type is "dict",
\* "list", "str", "null" or "error" (safe_load raised), items the mapping's
\* entries in insertion order.
\*   no token                      -> None
\*   block mapping entries only    -> dict
\*   block sequence entries only   -> list
\*   a plain scalar first: it runs on over the following lines; a later
\*     "key: value" line ends it at the ": ", which is an error ("mapping
\*     values are not allowed here"), otherwise it is one str
\*   anything else after a mapping or a sequence entry -> error
safe_load(lines) ==
    LET toks == NonBlank(lines)
        all(S) == \A i \in 1..Len(toks) : toks[i] \in S
    IN  IF toks = <<>> THEN [type |-> "null", items |-> <<>>]
        ELSE IF all(MapLines)
            THEN [type |-> "dict", items |-> ConstructMapping(toks, <<>>)]
        ELSE IF all({ListItem}) THEN [type |-> "list", items |-> <<>>]
        ELSE IF toks[1] \notin MapLines \cup {ListItem} /\ ~ \E i \in 1..Len(toks) : toks[i] \in MapLines
            THEN [type |-> "str", items |-> <<>>]
        ELSE [type |-> "error", items |-> <<>>]

\* yaml.safe_dump(data, allow_unicode=True, sort_keys=False) of a dict: one
\* "key: value\n" per entry in the dict's order, "{}\n" for the empty dict.
safe_dump(data) ==
    IF data.items = <<>> THEN <<[s |-> EmptyFlow, t |-> LF]>>
    ELSE [i \in 1..Len(data.items) |-> [s |-> DumpEntry(data.items[i]), t |-> LF]]

\* str.strip() of a text whose lines are not blank: the terminator after the
\* last line goes, and the whitespace at both ends.
StripText(text) ==
    IF text = <<>> THEN <<>>
    ELSE [i \in 1..Len(text) |->
            IF i = Len(text) THEN [s |-> Strip(text[i].s), t |-> NoEol]
            ELSE text[i]]

\* ------------------------------------------------------ the pure functions

update_yaml_field(data) == data

IsDelim(lines, i) == Strip(lines[i + 1]) = DELIM

\* find_yaml_block_indices with the second loop running to the last
\* delimiter instead of stopping at the first.
find_yaml_block_indices_last(content) ==
    LET lines == splitlines(content)
        n == Len(lines)
        firsts == {i \in 0..(n - 1) : IsDelim(lines, i)}
        start_index == IF firsts = {} THEN None
                       ELSE CHOOSE i \in firsts : \A j \in firsts : i <= j
        nexts == {i \in (start_index + 1)..(n - 1) : IsDelim(lines, i)}
        end_index == IF nexts = {} THEN None
                     ELSE CHOOSE i \in nexts : \A j \in nexts : i >= j
    IN  IF start_index = None THEN <<None, None>>
        ELSE <<start_index, end_index>>

\* Indices are Python's, from 0: line idx is lines[idx + 1] here.
find_yaml_block_indices(content) ==
    LET lines == splitlines(content)
        n == Len(lines)
        firsts == {i \in 0..(n - 1) : IsDelim(lines, i)}
        start_index == IF firsts = {} THEN None
                       ELSE CHOOSE i \in firsts : \A j \in firsts : i <= j
        nexts == {i \in (start_index + 1)..(n - 1) : IsDelim(lines, i)}
        end_index == IF nexts = {} THEN None
                     ELSE CHOOSE i \in nexts : \A j \in nexts : i <= j
    IN  IF start_index = None THEN <<None, None>>
        ELSE <<start_index, end_index>>

NoData == [type |-> "none", items |-> <<>>]

\* extract_yaml_data testing start_index alone for None.
extract_yaml_data_start_only(content) ==
    LET lines == splitlines(content)
        found == find_yaml_block_indices(content)
        start_index == found[1]
        end_index == found[2]
        yaml_lines == SubSeq(lines, start_index + 2,
                             IF end_index = None THEN Len(lines) ELSE end_index)
        data == safe_load(yaml_lines)
    IN  IF start_index = None
        THEN [raised |-> "YamlBlockNotFound", loaded |-> FALSE, logged |-> <<>>,
              data |-> [type |-> "none", items |-> <<>>],
              start_index |-> start_index, end_index |-> end_index]
        ELSE IF data.type = "error"
        THEN [raised |-> "YAMLError", loaded |-> TRUE, logged |-> <<"yaml parse error">>,
              data |-> [type |-> "none", items |-> <<>>],
              start_index |-> start_index, end_index |-> end_index]
        ELSE [raised |-> "", loaded |-> TRUE, logged |-> <<>>,
              data |-> data, start_index |-> start_index, end_index |-> end_index]

\* raised is the exception that leaves the function ("" for a return),
\* loaded whether yaml.safe_load was called, logged what it logged.
extract_yaml_data(content) ==
    LET lines == splitlines(content)
        found == find_yaml_block_indices(content)
        start_index == found[1]
        end_index == found[2]
        yaml_lines == SubSeq(lines, start_index + 2, end_index)
        data == safe_load(yaml_lines)
    IN  IF start_index = None \/ end_index = None
        THEN [raised |-> "YamlBlockNotFound", loaded |-> FALSE, logged |-> <<>>,
              data |-> NoData, start_index |-> start_index, end_index |-> end_index]
        ELSE IF data.type = "error"
        THEN [raised |-> "YAMLError", loaded |-> TRUE, logged |-> <<"yaml parse error">>,
              data |-> NoData, start_index |-> start_index, end_index |-> end_index]
        ELSE [raised |-> "", loaded |-> TRUE, logged |-> <<>>,
              data |-> data, start_index |-> start_index, end_index |-> end_index]

\* build_updated_content with lines[end_index:] for lines[end_index + 1:].
build_updated_content_keep_end(content, start_index, end_index, updated_yaml) ==
    LET lines == splitlines(content)
    IN  JoinLF(SubSeq(lines, 1, start_index)
               \o <<DELIM>>
               \o splitlines(updated_yaml)
               \o <<DELIM>>
               \o SubSeq(lines, end_index + 1, Len(lines)))

build_updated_content(content, start_index, end_index, updated_yaml) ==
    LET lines == splitlines(content)
    IN  JoinLF(SubSeq(lines, 1, start_index)
               \o <<DELIM>>
               \o splitlines(updated_yaml)
               \o <<DELIM>>
               \o SubSeq(lines, end_index + 2, Len(lines)))

\* update_yaml_content giving back the lines joined again, not the text,
\* when there is no block.
update_yaml_content_rejoin(content) ==
    LET got == extract_yaml_data(content)
    IN  IF got.raised = "YamlBlockNotFound"
        THEN [text |-> JoinLF(splitlines(content)), logged |-> <<"block not found">>]
        ELSE IF got.raised # ""
        THEN [text |-> content, logged |-> got.logged]
        ELSE IF got.data.type # "dict"
        THEN [text |-> content, logged |-> <<"not a mapping">>]
        ELSE [text |-> build_updated_content(content, got.start_index, got.end_index,
                                             StripText(safe_dump(update_yaml_field(got.data)))),
              logged |-> <<>>]

\* update_yaml_content without the isinstance(data, dict) test.
update_yaml_content_any_shape(content) ==
    LET got == extract_yaml_data(content)
    IN  IF got.raised = "YamlBlockNotFound"
        THEN [text |-> content, logged |-> <<"block not found">>]
        ELSE IF got.raised # ""
        THEN [text |-> content, logged |-> got.logged]
        ELSE [text |-> build_updated_content(content, got.start_index, got.end_index,
                                             StripText(safe_dump(update_yaml_field(got.data)))),
              logged |-> <<>>]

\* text is what the function returns, logged what it and its callees logged.
update_yaml_content(content) ==
    LET got == extract_yaml_data(content)
    IN  IF got.raised = "YamlBlockNotFound"
        THEN [text |-> content, logged |-> <<"block not found">>]
        ELSE IF got.raised # ""
        THEN [text |-> content, logged |-> got.logged]
        ELSE IF got.data.type # "dict"
        THEN [text |-> content, logged |-> <<"not a mapping">>]
        ELSE LET data == update_yaml_field(got.data)
                 updated_yaml == StripText(safe_dump(data))
             IN  [text |-> build_updated_content(content, got.start_index,
                                                 got.end_index, updated_yaml),
                  logged |-> <<>>]

\* ----------------------------------------------------------- the file system

\* Name atoms.  Kniga is the literal prefix of FILE_NAME_PATTERN, KnigaLower
\* the same word without the capital.
Kniga == "Kniga"
KnigaLower == "kniga"
ExtMd == ".md"
ExtTxt == ".txt"
Notes == "notes"
One == "1"
Two == "2"
NameLF == "\n"

\* re.match(r"^Kniga.*\.md$", name): the prefix at the start, then any
\* characters but "\n", then ".md" at the end of the name or right before a
\* "\n" that ends it.
re_match(name) ==
    /\ Len(name) >= 2
    /\ name[1] = Kniga
    /\ \E e \in 2..Len(name) :
          /\ name[e] = ExtMd
          /\ \/ e = Len(name)
             \/ e = Len(name) - 1 /\ name[Len(name)] = NameLF
          /\ \A i \in 2..(e - 1) : name[i] # NameLF

\* A path is the sequence of names below NOTES_DIRECTORY; the file system
\* maps each path that exists to [kind |-> "file" or "dir", bytes |-> text].
iterdir(fsys) == {p \in DOMAIN fsys : Len(p) = 1}
is_file(fsys, p) == fsys[p].kind = "file"
PathName(p) == p[Len(p)]

\* The set of the paths list_note_files returns; the order of the list is
\* the order iterdir yields them in, which is any.
list_note_files(fsys) ==
    {p \in iterdir(fsys) : is_file(fsys, p) /\ re_match(PathName(p))}

Orderings(S) ==
    {f \in [1..Cardinality(S) -> S] : \A i, j \in 1..Cardinality(S) : f[i] = f[j] => i = j}

\* What Path.write_text (open(mode="w"), then write) can leave behind when
\* it raises: the file as it was (open failed), or truncated with some or
\* none of the text written.
FailedWriteOutcomes(old, new) ==
    {old} \cup {SubSeq(new, 1, n) : n \in 0..(Len(new) - 1)}

\* ------------------------------------------------------------------- state

VARIABLES
    fs,               \* the file system below NOTES_DIRECTORY
    pc,               \* where main is: "main", "loop", "transform", "compare", "done", "aborted"
    run,              \* which run of the program this is
    file_paths,       \* main: the list list_note_files returned
    idx,              \* main: the loop's position in file_paths, from 1
    content,          \* process_file: the text read
    updated_content,  \* process_file: the text update_yaml_content returned
    logged,           \* what the current (or last) process_file call logged
    writes,           \* how many times that call called write_text
    calls,            \* the paths process_file was called with in this run
    fs0,              \* the file system as this run found it
    io_failed         \* whether some read or write has raised in any run

vars == <<fs, pc, run, file_paths, idx, content, updated_content, logged,
          writes, calls, fs0, io_failed>>

locals == <<content, updated_content, logged, writes>>

CurPath == file_paths[idx]

\* directory.iterdir() raises (the directory is missing or unreadable):
\* nothing in main catches it.
ListFail ==
    /\ pc = "main"
    /\ pc' = "aborted"
    /\ UNCHANGED <<fs, run, file_paths, idx, locals, calls, fs0, io_failed>>

\* file_paths = list_note_files(NOTES_DIRECTORY)
ListOk ==
    /\ pc = "main"
    /\ file_paths' \in Orderings(list_note_files(fs))
    /\ idx' = 1
    /\ pc' = "loop"
    /\ UNCHANGED <<fs, run, locals, calls, fs0, io_failed>>

\* process_file without the try around read_text: the error reaches main,
\* which catches nothing.
ReadFailPropagates ==
    /\ pc = "loop" /\ idx <= Len(file_paths)
    /\ calls' = Append(calls, CurPath)
    /\ content' = <<>> /\ updated_content' = <<>>
    /\ logged' = <<"read error">>
    /\ writes' = 0
    /\ io_failed' = TRUE
    /\ pc' = "aborted"
    /\ UNCHANGED <<fs, run, file_paths, idx, fs0>>

\* process_file(file_path): read_text raises; the error is logged and the
\* call returns.
ReadFail ==
    /\ pc = "loop" /\ idx <= Len(file_paths)
    /\ calls' = Append(calls, CurPath)
    /\ content' = <<>> /\ updated_content' = <<>>
    /\ logged' = <<"read error">>
    /\ writes' = 0
    /\ io_failed' = TRUE
    /\ idx' = idx + 1
    /\ UNCHANGED <<fs, pc, run, file_paths, fs0>>

\* process_file(file_path): content = file_path.read_text(encoding="utf-8")
ReadOk ==
    /\ pc = "loop" /\ idx <= Len(file_paths)
    /\ calls' = Append(calls, CurPath)
    /\ content' = UniversalNewlines(fs[CurPath].bytes)
    /\ updated_content' = <<>>
    /\ logged' = <<>>
    /\ writes' = 0
    /\ pc' = "transform"
    /\ UNCHANGED <<fs, run, file_paths, idx, fs0, io_failed>>

\* updated_content = update_yaml_content(content)
Transform ==
    /\ pc = "transform"
    /\ updated_content' = update_yaml_content(content).text
    /\ logged' = logged \o update_yaml_content(content).logged
    /\ pc' = "compare"
    /\ UNCHANGED <<fs, run, file_paths, idx, content, writes, calls, fs0, io_failed>>

\* process_file without the comparison: it returns without writing whatever
\* update_yaml_content gave.
SkipWriteAlways ==
    /\ pc = "compare"
    /\ idx' = idx + 1
    /\ pc' = "loop"
    /\ UNCHANGED <<fs, run, file_paths, locals, calls, fs0, io_failed>>

\* if updated_content != content: false, the call returns
SkipWrite ==
    /\ pc = "compare"
    /\ updated_content = content
    /\ idx' = idx + 1
    /\ pc' = "loop"
    /\ UNCHANGED <<fs, run, file_paths, locals, calls, fs0, io_failed>>

\* file_path.write_text(updated_content, encoding="utf-8") returns
WriteOk ==
    /\ pc = "compare"
    /\ updated_content # content
    /\ writes' = writes + 1
    /\ fs' = [fs EXCEPT ![CurPath].bytes = updated_content]
    /\ logged' = Append(logged, "updated")
    /\ idx' = idx + 1
    /\ pc' = "loop"
    /\ UNCHANGED <<run, file_paths, content, updated_content, calls, fs0, io_failed>>

\* file_path.write_text(...) raises; the error is logged
WriteFail ==
    /\ pc = "compare"
    /\ updated_content # content
    /\ writes' = writes + 1
    /\ \E left \in FailedWriteOutcomes(fs[CurPath].bytes, updated_content) :
          fs' = [fs EXCEPT ![CurPath].bytes = left]
    /\ logged' = Append(logged, "write error")
    /\ io_failed' = TRUE
    /\ idx' = idx + 1
    /\ pc' = "loop"
    /\ UNCHANGED <<run, file_paths, content, updated_content, calls, fs0>>

\* the for loop of main is exhausted: main returns
Finish ==
    /\ pc = "loop" /\ idx > Len(file_paths)
    /\ pc' = "done"
    /\ UNCHANGED <<fs, run, file_paths, idx, locals, calls, fs0, io_failed>>

\* the program is started again on the directory as the last run left it
Rerun ==
    /\ pc = "done"
    /\ run < MaxRuns
    /\ run' = run + 1
    /\ pc' = "main"
    /\ file_paths' = <<>> /\ idx' = 1
    /\ content' = <<>> /\ updated_content' = <<>> /\ logged' = <<>> /\ writes' = 0
    /\ calls' = <<>>
    /\ fs0' = fs
    /\ UNCHANGED <<fs, io_failed>>

Next ==
    \/ ListFail \/ ListOk
    \/ ReadFail \/ ReadOk
    \/ Transform
    \/ SkipWrite \/ WriteOk \/ WriteFail
    \/ Finish
    \/ Rerun

\* ------------------------------------------------------------ initial states

\* A file of the given lines, every line ended by eol, the last one only if
\* final.
MkText(lines, eol, final) ==
    [i \in 1..Len(lines) |->
        [s |-> lines[i], t |-> IF i < Len(lines) \/ final THEN eol ELSE NoEol]]

Texts ==
    {MkText(ls, eol, final) :
        ls \in UNION {[1..n -> LineSet] : n \in 0..MaxLines},
        eol \in {LF, CRLF},
        final \in BOOLEAN}

\* Texts has a text without its final terminator only if its last line is
\* not empty: the same string is the text without that line.
WellFormed(text) ==
    \A i \in 1..Len(text) :
        /\ text[i].t = NoEol => i = Len(text) /\ text[i].s # ""
        /\ text[i].t \in {LF, CRLF, NoEol}

NoteName == <<Kniga, One, ExtMd>>

StartOfRun(fsys) ==
    /\ fs = fsys
    /\ fs0 = fsys
    /\ pc = "main"
    /\ run = 1
    /\ file_paths = <<>> /\ idx = 1
    /\ content = <<>> /\ updated_content = <<>> /\ logged = <<>> /\ writes = 0
    /\ calls = <<>>
    /\ io_failed = FALSE

\* One note in the directory, of any text.
Init ==
    \E text \in {t \in Texts : WellFormed(t)} :
        StartOfRun(<<NoteName>> :> [kind |-> "file", bytes |-> text])

Spec == Init /\ [][Next]_vars

\* A directory of up to MaxEntries entries: notes of some sample texts,
\* other files, subdirectories, a note inside a subdirectory.

DirNames ==
    { <<Kniga, One, ExtMd>>,            \* the spec's example names
      <<Kniga, Two, ExtMd>>,
      <<Notes, ExtMd>>,
      <<Kniga, ExtTxt>>,
      <<KnigaLower, One, ExtMd>>,       \* the prefix in lower case
      <<One, Kniga, ExtMd>>,            \* the prefix not at the start
      <<Kniga, ExtMd, ExtTxt>>,         \* the extension not at the end
      <<Kniga, One, ExtMd, NameLF>>,    \* a line feed after the extension
      <<Kniga, NameLF, ExtMd>> }        \* a line feed inside the name

\* "--- \nk:   1\n---\nx\n": a block that is rewritten
SampleRewrite == MkText(<<DelimPadded, MapKWide, DELIM, Plain>>, LF, TRUE)
\* "---\nk: 1\n": a block that is never closed
SampleUnterminated == MkText(<<DELIM, MapK>>, LF, TRUE)
\* "---\nk: 1\n- 1\n---": a block PyYAML cannot parse
SampleParseError == MkText(<<DELIM, MapK, ListItem, DELIM>>, LF, FALSE)
\* "---\n- 1\n---": a block that is a list
SampleList == MkText(<<DELIM, ListItem, DELIM>>, LF, FALSE)

SampleTexts == {SampleRewrite, SampleUnterminated, SampleParseError, SampleList}

EntryKinds ==
    [kind : {"file"}, bytes : SampleTexts, nested : {FALSE}]
    \cup [kind : {"dir"}, bytes : {<<>>}, nested : BOOLEAN]

MkDir(names, entry) ==
    LET top == {<<n>> : n \in names}
        below == {<<n, NoteName>> : n \in {m \in names : entry[m].nested}}
    IN  [p \in top \cup below |->
            IF Len(p) = 1 THEN [kind |-> entry[p[1]].kind, bytes |-> entry[p[1]].bytes]
            ELSE [kind |-> "file", bytes |-> SampleRewrite]]

DirInit ==
    \E names \in {S \in SUBSET DirNames : Cardinality(S) <= MaxEntries} :
        \E entry \in [names -> EntryKinds] :
            StartOfRun(MkDir(names, entry))

\* main is one thread that runs every statement it reaches and calls nothing
\* that blocks.
DirSpec == DirInit /\ [][Next]_vars /\ WF_vars(Next)

\* ------------------------------------------------------------------ claims

\* A process_file call has read its text (and the locals are that call's).
HasRead == calls # <<>> /\ ~ (logged # <<>> /\ logged[1] = "read error")
\* The last process_file call has returned.
Returned == calls # <<>> /\ pc \in {"loop", "done"}
\* update_yaml_content has returned in the current process_file call.
Transformed == calls # <<>> /\ pc \in {"compare", "loop", "done"}
LastPath == calls[Len(calls)]
FileUntouched == fs[LastPath] = fs0[LastPath]

\* The 0-based indices of the lines whose trimmed content is "---".
DelimiterLines(text) ==
    {i \in 0..(Len(text) - 1) : Strip(text[i + 1].s) = "---"}

\* str.split("\n") of a text whose terminators are all "\n".
SplitLF(text) ==
    IF text = <<>> THEN <<"">>
    ELSE IF text[Len(text)].t = NoEol THEN [i \in 1..Len(text) |-> text[i].s]
    ELSE [i \in 1..(Len(text) + 1) |-> IF i <= Len(text) THEN text[i].s ELSE ""]

\* C1: for a text with two or more lines that trim to "---",
\* find_yaml_block_indices returns (start, end) with start the first such
\* line and end the first such line after it, so start < end with no such
\* line between; every later such line lies after end and, when the block is
\* rewritten, is among the lines copied after the new block.
C1_FirstPair ==
    (HasRead /\ pc \in {"transform", "compare"}) =>
        LET D == DelimiterLines(content)
            r == find_yaml_block_indices(content)
            lines == splitlines(content)
            after == SubSeq(lines, r[2] + 2, Len(lines))
            out == SplitLF(updated_content)
        IN  Cardinality(D) >= 2 =>
                /\ r[1] \in D /\ r[2] \in D
                /\ r[1] < r[2]
                /\ \A d \in D : d >= r[1] /\ (d > r[1] => d >= r[2])
                /\ \A d \in D \ {r[1], r[2]} : d > r[2]
                /\ (Transformed /\ updated_content # content) =>
                       /\ Len(out) >= Len(after)
                       /\ SubSeq(out, Len(out) - Len(after) + 1, Len(out)) = after

C1_Witness ==
    /\ Transformed
    /\ HasRead
    /\ Cardinality(DelimiterLines(content)) >= 3
    /\ find_yaml_block_indices(content) = <<0, 2>>
    /\ updated_content # content

\* Replacement blocks for build_updated_content, as update_yaml_content
\* passes them (stripped): "", "k: 1" and "k: 1\nj: 2".
SampleYaml ==
    { <<>>,
      <<[s |-> MapK, t |-> NoEol]>>,
      <<[s |-> MapK, t |-> LF], [s |-> MapJ, t |-> NoEol]>> }

\* out is text with its lines start..end replaced by "---", the lines of
\* updated_yaml and "---", every line joined to the next by one "\n" and
\* nothing after the last.
Spliced(text, start, end, updated_yaml, out) ==
    LET lines == splitlines(text)
        n == Len(lines)
        ylines == splitlines(updated_yaml)
        m == Len(ylines)
        o == SplitLF(out)
    IN  /\ \A i \in 1..Len(out) :
               /\ out[i].t \in {LF, NoEol}
               /\ out[i].t = NoEol => i = Len(out)
        /\ Len(o) = start + 1 + m + 1 + (n - end - 1)
        /\ \A i \in 1..start : o[i] = lines[i]
        /\ o[start + 1] = "---"
        /\ \A i \in 1..m : o[start + 1 + i] = ylines[i]
        /\ o[start + m + 2] = "---"
        /\ \A k \in 1..(n - end - 1) : o[start + m + 2 + k] = lines[end + 1 + k]

\* C2: for every text, indices start < end and replacement YAML,
\* build_updated_content returns the lines before start, one "---", the
\* lines of the replacement, one "---" and the lines after end, joined by
\* single newlines, with no line added after the last (for every text a
\* first run reads); and that is what process_file gets back, in any run,
\* when the block is rewritten.
C2_Splice ==
    /\ (HasRead /\ pc = "transform" /\ run = 1) =>
           \A start \in 0..(Len(content) - 1) :
               \A end \in (start + 1)..(Len(content) - 1) :
                   \A y \in SampleYaml :
                       Spliced(content, start, end, y,
                               build_updated_content(content, start, end, y))
    /\ (HasRead /\ pc = "compare") =>
           LET got == extract_yaml_data(content)
           IN  (got.raised = "" /\ got.data.type = "dict") =>
                   Spliced(content, got.start_index, got.end_index,
                           StripText(safe_dump(got.data)), updated_content)

\* A note with a line before the block and a line after it has been rewritten.
C2_Witness ==
    /\ HasRead /\ Transformed
    /\ Len(content) = 4
    /\ find_yaml_block_indices(content) = <<0, 2>>
    /\ content[4].s = Plain
    /\ content[2].s = MapKWide
    /\ updated_content # content
    /\ updated_content[2].s = MapK
    /\ updated_content[4].s = Plain

\* C6: for a text in which exactly one line trims to "---",
\* extract_yaml_data raises YamlBlockNotFound without calling the YAML
\* parser, and update_yaml_content logs it as such and gives the text back.
C6_Unterminated ==
    (HasRead /\ Cardinality(DelimiterLines(content)) = 1) =>
        /\ pc = "transform" =>
               LET got == extract_yaml_data(content)
               IN  got.raised = "YamlBlockNotFound" /\ ~ got.loaded
        /\ Transformed =>
               /\ logged = <<"block not found">>
               /\ updated_content = content

C6_Witness ==
    /\ HasRead /\ Returned
    /\ Cardinality(DelimiterLines(content)) = 1
    /\ Len(content) >= 2
    /\ Strip(content[1].s) = "---"
    /\ content[2].s = MapK
    /\ logged = <<"block not found">>

\* C7: for a text in which no line trims to "---", find_yaml_block_indices
\* returns (None, None), update_yaml_content returns the text unchanged and
\* process_file does not write: the file is left as it was.
C7_NoBlock ==
    (HasRead /\ DelimiterLines(content) = {}) =>
        /\ pc = "transform" =>
               /\ find_yaml_block_indices(content) = <<None, None>>
               /\ update_yaml_content(content).text = content
        /\ Transformed => updated_content = content
        /\ Returned => writes = 0 /\ FileUntouched

\* A note without a block, ending in an empty line, has been processed.
C7_Witness ==
    /\ HasRead /\ Returned
    /\ DelimiterLines(content) = {}
    /\ Len(content) >= 2
    /\ content[Len(content)].s = ""
    /\ fs[LastPath].bytes[1].t = CRLF

\* C8: when the block found does not parse as YAML, or parses to something
\* that is not a mapping (a list, a scalar, None), update_yaml_content
\* returns the text it was given, and process_file does not write: the file
\* is left as it was.
C8_NotAMapping ==
    /\ (HasRead /\ pc \in {"transform", "compare"}) =>
           LET r == find_yaml_block_indices(content)
               inner == SubSeq(splitlines(content), r[1] + 2, r[2])
           IN  (r[1] # None /\ r[2] # None /\ safe_load(inner).type # "dict") =>
                   /\ pc = "transform" => update_yaml_content(content).text = content
                   /\ pc = "compare" =>
                          /\ updated_content = content
                          /\ logged \in {<<"yaml parse error">>, <<"not a mapping">>}
    /\ (Returned /\ logged \in {<<"yaml parse error">>, <<"not a mapping">>}) =>
           /\ updated_content = content
           /\ writes = 0
           /\ FileUntouched

\* A note whose block is a list between padded delimiters, which a rewrite
\* would change, has been processed.
C8_Witness ==
    /\ HasRead /\ Returned
    /\ Len(content) >= 3
    /\ content[1].s = DelimPadded
    /\ content[2].s = ListItem
    /\ content[3].s = DELIM
    /\ logged = <<"not a mapping">>

\* C10: process_file calls write_text if and only if the read succeeded and
\* the updated text differs from the text read, and at most once per call;
\* process_file is called at most once per file in a run.
C10_CompareBeforeWrite ==
    /\ writes <= 1
    /\ pc = "compare" => updated_content = update_yaml_content(content).text
    /\ Returned => (writes = 1 <=> (HasRead /\ updated_content # content))
    /\ \A i, j \in 1..Len(calls) : calls[i] = calls[j] => i = j

C10_Witness ==
    /\ Returned /\ HasRead
    /\ writes = 1
    /\ updated_content # content
    /\ run = 2

\* C3: with the identity field updater, the file after a second run of the
\* program is byte for byte the file after the first run (no read or write
\* having failed).
C3_Idempotent ==
    (run = 2 /\ pc = "done" /\ ~ io_failed) => fs = fs0

\* C4: a write that fails leaves the file as it was before the write.
C4_FailedWriteLeavesFile ==
    (Returned /\ logged # <<>> /\ logged[Len(logged)] = "write error") =>
        FileUntouched

\* How far main's loop is: three steps (read, transform, compare and write)
\* for each file of the list.
Stage == IF pc = "transform" THEN 1 ELSE IF pc = "compare" THEN 2 ELSE 0
Measure == 3 * idx + Stage
InLoop == pc \in {"loop", "transform", "compare"}

\* C5: whatever fails for a file (the read, the block, the parse, the shape,
\* the write), no error leaves process_file: main, once it has its list,
\* never aborts, calls process_file with the files of the list in order,
\* each exactly once, and returns.  That it returns is stated as: while in
\* the loop main can always take a step (at "transform" the step is
\* Transform, which has no condition but the position), every step brings
\* it nearer the end of the list, and the way out of the loop is main's
\* return.
C5_Isolation ==
    /\ [][pc \notin {"main", "aborted"} => pc' # "aborted"]_vars
    /\ [][InLoop => \/ (InLoop' /\ Measure' > Measure /\ file_paths' = file_paths)
                    \/ pc' = "done"]_vars
    /\ [](InLoop => /\ \/ pc = "transform"
                       \/ ENABLED (ReadFail \/ ReadOk \/ Finish
                                   \/ SkipWrite \/ WriteOk \/ WriteFail)
                    /\ Measure <= 3 * (Len(file_paths) + 1))
    /\ [](pc \in {"loop", "transform", "compare", "done"} =>
              /\ Len(calls) <= Len(file_paths)
              /\ calls = SubSeq(file_paths, 1, Len(calls))
              /\ \A i, j \in 1..Len(file_paths) : file_paths[i] = file_paths[j] => i = j)
    /\ [](pc = "done" => calls = file_paths)

\* main has returned after two files, a read or a write having failed in
\* this or an earlier run and the last file's write having failed.
C5_Witness ==
    /\ pc = "done"
    /\ Len(file_paths) = 2
    /\ calls = file_paths
    /\ io_failed
    /\ logged = <<"write error">>

\* C9: list_note_files returns exactly the immediate entries of the
\* directory that are regular files and whose name begins with the literal
\* prefix and ends with ".md".
C9_PrefixAndExtension ==
    pc \in {"loop", "transform", "compare", "done"} =>
        {file_paths[i] : i \in 1..Len(file_paths)} =
            {p \in DOMAIN fs :
                /\ Len(p) = 1
                /\ fs[p].kind = "file"
                /\ p[1][1] = Kniga
                /\ Len(p[1]) >= 2
                /\ p[1][Len(p[1])] = ExtMd}

====
